---------------------------- MODULE Spec2Model ----------------------------
(***************************************************************************)
(* State-machine model of the chat-spike crate: the circular buffer        *)
(* (ring.rs), the decaying frequency dictionary (dict.rs), the text        *)
(* normaliser and n-gram tokenizer (text.rs), the Poisson tail surprise    *)
(* (math.rs) and the burst detector, summarization window and composite    *)
(* detector (spike.rs).                                                    *)
(*                                                                         *)
(* Number representation.  Dictionary counts are exact rationals <<n, d>>  *)
(* in lowest terms (f64 rounding of 1 - 1/L is abstracted away).           *)
(***************************************************************************)
EXTENDS Integers, Sequences, FiniteSets, TLC

VARIABLES
    cap,        \* Ring: the const parameter S of the ring under test
    ring,       \* Ring: [buf, offset, size]
    pushed,     \* history: every item given to Ring::push, oldest first
    dL,         \* MemoryDictionary: the const parameter L
    dict,       \* MemoryDictionary: [tokens, last_vaccumed_size, last_vaccumed_idx, idx]
    op,         \* the last call made: [name, token, idx]
    ret,        \* the value the last call returned
    prev,       \* the dictionary as it was before the last call
    seen,       \* history: every token given to observe so far
    calls,      \* history: the number of calls made in this run
    detS,       \* detector: the const parameter S (short horizon)
    detL,       \* detector: the const parameter L (long horizon)
    det,        \* ChatSpikeDetector: [spike, recent_chats]
    prevDet,    \* the detector as it was before the last call
    hist,       \* history: every input given to push / update, oldest first,
                \* with the event the call returned
    panicked,   \* the last call panicked; the run is over
    reads,      \* history: the number of queries since the last mutating call
    answers     \* history: the [query, result] pairs since the last mutating call

detVars == <<detS, detL, det, prevDet, hist, panicked, reads, answers>>
vars == <<cap, ring, pushed, dL, dict, op, ret, prev, seen, calls,
          detS, detL, det, prevDet, hist, panicked, reads, answers>>

-----------------------------------------------------------------------------
(* Bounds of the model. *)

MaxS == 3          \* ring capacities 1..MaxS
MaxPush == 5       \* pushes per ring run
MaxItem == 2       \* ring items are 1..MaxItem
MaxDL == 3         \* dictionary horizons L in 1..MaxDL
MaxIdx == 2        \* logical indices 0..MaxIdx given to observe
MaxObs == 3        \* observe calls per dictionary run
NHot == 1          \* pre-observed tokens that are observed again
NFresh == 2        \* tokens not observed before the run starts
MaxUpd == 3        \* push / update calls per detector run
MaxRead == 2       \* consecutive queries between two mutating calls
MaxHits == 5       \* observations of one token before the dictionary is full
MaxLate == 4       \* indices given to observe once it is full
MaxGrow == 2       \* observe calls once it is full
MaxLen == 4        \* chars of a string given to the text functions
MaxN == 3          \* min_n, max_n given to unique_char_ngrams
MaxKStep == 12       \* counts k given to neg_ln_poisson_tail: i * i / 2, i <= MaxKStep
MaxLambdaStep == 20  \* rates given to it: j * j / 4 + 1 / SC, j <= MaxLambdaStep

-----------------------------------------------------------------------------
(* Small helpers. *)

Min(a, b) == IF a <= b THEN a ELSE b
Max(a, b) == IF a >= b THEN a ELSE b
Abs(a) == IF a < 0 THEN -a ELSE a

RECURSIVE GCD(_, _)
GCD(a, b) == IF b = 0 THEN a ELSE GCD(b, a % b)

(* Exact rationals <<n, d>>, d > 0, in lowest terms. *)
Rat(n, d) ==
    LET g == GCD(Abs(n), d) IN IF n = 0 THEN <<0, 1>> ELSE <<n \div g, d \div g>>
RInt(k) == <<k, 1>>
RAdd(a, b) == Rat(a[1] * b[2] + b[1] * a[2], a[2] * b[2])
RMul(a, b) == Rat(a[1] * b[1], a[2] * b[2])
RLt(a, b) == a[1] * b[2] < b[1] * a[2]
RGt(a, b) == RLt(b, a)
RMax(a, b) == IF RLt(a, b) THEN b ELSE a

\* f64::powi for a non-negative exponent: x^0 = 1 for every x, 0 included.
RECURSIVE RPowi(_, _)
RPowi(x, n) == IF n = 0 THEN RInt(1) ELSE RMul(x, RPowi(x, n - 1))

\* usize::saturating_sub
saturating_sub(a, b) == IF a >= b THEN a - b ELSE 0

\* Option<T>: None is the empty tuple, Some(x) the 1-tuple <<x>>.
None == <<>>
Some(x) == <<x>>

-----------------------------------------------------------------------------
(* f64 arithmetic of math.rs and spike.rs, in fixed point: the number x is *)
(* the integer x * SC, truncated.  NaN and +infinity are two integers out  *)
(* of the range of the numbers; every comparison with NaN is false.  A     *)
(* result that is non-zero in f64 is never rounded to zero where its sign  *)
(* decides a comparison.                                                   *)

SC == 10 ^ 4

NaN == 0 - 2 ^ 30
Inf == 2 ^ 30

\* f64 >, <
FGt(a, b) == a # NaN /\ b # NaN /\ a > b
FLt(a, b) == a # NaN /\ b # NaN /\ a < b

Sgn(a) == IF a < 0 THEN -1 ELSE 1

\* a * b / c truncated toward zero (c > 0), formed without the full product.
MulDiv(a, b, c) ==
    LET big == Max(Abs(a), Abs(b))
        small == Min(Abs(a), Abs(b))
    IN Sgn(a) * Sgn(b) * ((big \div c) * small + ((big % c) * small) \div c)

FxMul(a, b) == MulDiv(a, b, SC)

\* the first n decimal digits of r / b, for 0 <= r < b
RECURSIVE DivDigits(_, _, _)
DivDigits(r, b, n) ==
    IF n = 0 THEN 0
    ELSE (10 ^ (n - 1)) * ((r * 10) \div b) + DivDigits((r * 10) % b, b, n - 1)

\* a / b truncated toward zero (b # 0), by long division
FxDiv(a, b) ==
    Sgn(a) * Sgn(b) * ((Abs(a) \div Abs(b)) * SC
                       + DivDigits(Abs(a) % Abs(b), Abs(b), 4))
FxOfInt(k) == k * SC

RECURSIVE ISqrtIter(_, _)
ISqrtIter(n, x) ==
    LET y == (x + n \div x) \div 2 IN IF y >= x THEN x ELSE ISqrtIter(n, y)
\* f64::sqrt of a non-negative number (to 1/SC below 20, to 10/SC above)
FxSqrt(a) ==
    IF a = 0 THEN 0
    ELSE IF a < 20 * SC THEN ISqrtIter(a * SC, a * SC)
    ELSE 10 * ISqrtIter(a * (SC \div 100), a * (SC \div 100))

\* ln 2
FxLn2 == 6931472 \div (10 ^ 7 \div SC)

\* a = m * 2^e with m in [1, 2): <<m, e>>
RECURSIVE LnReduce(_, _)
LnReduce(a, e) ==
    IF a >= 2 * SC THEN LnReduce(a \div 2, e + 1)
    ELSE IF a < SC THEN LnReduce(a * 2, e - 1)
    ELSE <<a, e>>

\* f64::ln of a positive number: ln(m * 2^e) = e * ln 2 + 2 * atanh(y),
\* y = (m - 1) / (m + 1), atanh by its series up to y^9.
FxLn(a) ==
    LET me == LnReduce(a, 0)
        y == FxDiv(me[1] - SC, me[1] + SC)
        y2 == FxMul(y, y)
        y3 == FxMul(y, y2)
        y5 == FxMul(y3, y2)
        y7 == FxMul(y5, y2)
        y9 == FxMul(y7, y2)
    IN me[2] * FxLn2
       + 2 * (y + y3 \div 3 + y5 \div 5 + y7 \div 7 + y9 \div 9)

RECURSIVE Halve(_, _)
Halve(a, n) == IF n = 0 \/ a = 0 THEN a ELSE Halve(a \div 2, n - 1)

\* f64::exp of a number <= 0: e^(-x) = 2^(-n) * e^(-r), x = n * ln 2 + r,
\* e^(-r) by its series up to r^6.
FxExpNeg(a) ==
    LET x == -a
        n == x \div FxLn2
        r == x - n * FxLn2
        r2 == FxMul(r, r)
        r3 == FxMul(r2, r)
        r4 == FxMul(r3, r)
        r5 == FxMul(r4, r)
        r6 == FxMul(r5, r)
    IN Halve(SC - r + r2 \div 2 - r3 \div 6 + r4 \div 24 - r5 \div 120
             + r6 \div 720, n)

-----------------------------------------------------------------------------
(* math.rs: neg_ln_poisson_tail.  The rate lambda is a record [v, e]: NaN  *)
(* when v = NaN, else (v / SC) * EPSILON^e with v > 0 and e in -1..1:      *)
(* f64::EPSILON = 2^-52 is the gap spike.rs substitutes for a zero gap, so *)
(* rates of the order of EPSILON and of 1 / EPSILON arise beside ordinary  *)
(* ones.  The observed count k is a fixed-point number.                    *)

\* ln(f64::EPSILON) = ln(2^-52)
FxLnEpsilon == 0 - (36043653 \div (10 ^ 6 \div SC))

\* -ln(1e-308), the largest value the two flooring branches return
FxFloor == 70919620 \div (10 ^ 5 \div SC)

\* |x| from which 0.5 * erfc(-|x|) is exactly 1.0 in f64 (its distance to
\* 1.0 is under 2^-54)
FxErfcOne == 5863585 \div (10 ^ 6 \div SC)

Lam(v, e) == [v |-> v, e |-> e]

\* k.ceil() as u64
CeilInt(k) == (k + SC - 1) \div SC

RECURSIVE LnFactorial(_)
LnFactorial(n) == IF n <= 1 THEN 0 ELSE FxLn(FxOfInt(n)) + LnFactorial(n - 1)

\* ln of the Poisson probability of i: -lambda + i ln(lambda) - ln(i!)
LnPmf(i, lambda) ==
    (IF lambda.e = 0 THEN -lambda.v ELSE 0)
    + i * (FxLn(lambda.v) + lambda.e * FxLnEpsilon) - LnFactorial(i)

\* 1 + lambda/d + lambda^2/(d (d+1)) + ... , for d > lambda
RECURSIVE TailSeries(_, _, _)
TailSeries(term, v, d) ==
    IF term = 0 THEN 0
    ELSE term + TailSeries(FxMul(term, v) \div d, v, d + 1)

RECURSIVE CdfSum(_, _)
CdfSum(i, lambda) ==
    IF i < 0 THEN 0
    ELSE FxExpNeg(Min(0, LnPmf(i, lambda))) + CdfSum(i - 1, lambda)

\* ln of Poisson::new(lambda).sf(x) = P(X > x), for lambda < 20: the upper
\* tail summed from x + 1 when x + 1 >= lambda, else 1 - cdf(x).
LnPoissonSf(x, lambda) ==
    IF lambda.e = 1 \/ FxOfInt(x + 1) >= lambda.v
    THEN LnPmf(x + 1, lambda)
         + FxLn(IF lambda.e = 1 THEN SC ELSE TailSeries(SC, lambda.v, x + 2))
    ELSE FxLn(Max(1, SC - CdfSum(x, lambda)))

\* erfc(x) * e^(x^2) for x >= 0 (Abramowitz-Stegun 7.1.26)
ErfcPoly(x) ==
    LET t == FxDiv(SC, SC + FxMul(3276, x))
    IN FxMul(t, 2548 + FxMul(t, -2845 + FxMul(t, 14214
              + FxMul(t, -14532 + FxMul(t, 10614)))))

\* -(0.5 * erfc(x)).max(1e-308).ln()
NegLnHalfErfc(x) ==
    IF x >= 0
    THEN Min(FxFloor, FxLn2 - FxLn(Max(1, ErfcPoly(x))) + FxMul(x, x))
    ELSE IF -x >= FxErfcOne THEN 0
    ELSE Max(1, -FxLn(SC - FxMul(ErfcPoly(-x), FxExpNeg(-FxMul(x, x))) \div 2))

\* the saddle-point branch returning ln_sf itself
SaddlePoint_NotNegated(k, v) ==
    LET s == FxDiv(k, v)
        g == s - SC - FxLn(s)
        t == FxSqrt(2 * FxMul(v, g))
        w == t + FxDiv(FxDiv(SC, s) - SC, t)
    IN -FxMul(v, g) - FxLn(w) - FxLn(FxMul(62832, k)) \div 2

\* the saddle-point branch
SaddlePoint(k, v) ==
    LET s == FxDiv(k, v)
        g == s - SC - FxLn(s)
        t == FxSqrt(2 * FxMul(v, g))
        w == t + FxDiv(FxDiv(SC, s) - SC, t)
    IN FxMul(v, g) + FxLn(w) + FxLn(FxMul(62832, k)) \div 2

\* neg_ln_poisson_tail(k, lambda): every comparison with a NaN lambda is
\* false, which leads to the last branch and a NaN result.
neg_ln_poisson_tail(k, lambda) ==
    IF lambda.v = NaN THEN NaN
    ELSE IF lambda.e = 1 \/ (lambda.e = 0 /\ lambda.v < 20 * SC)
    THEN Max(1, Min(FxFloor, -LnPoissonSf(CeilInt(k), lambda)))
    ELSE IF lambda.e = -1 THEN 0
    ELSE IF k < lambda.v \/ Abs(k - lambda.v) <= 4 * FxSqrt(lambda.v)
    THEN NegLnHalfErfc(FxMul(FxDiv(k - lambda.v + SC \div 2, FxSqrt(lambda.v)),
                             7071))
    ELSE SaddlePoint(k, lambda.v)

-----------------------------------------------------------------------------
(* ring.rs: Ring<T, S>.  buf is indexed 0..S-1, an empty slot is None. *)

RingNew(S) == [buf |-> [i \in 0..(S - 1) |-> None], offset |-> 0, size |-> 0]

\* Ring::push: overwrite the slot under the cursor, advance the cursor
\* modulo S, saturate the fill count at S.
RingPush(S, r, t) ==
    [buf |-> [r.buf EXCEPT ![r.offset] = Some(t)],
     offset |-> (r.offset + 1) % S,
     size |-> Min(r.size + 1, S)]

\* RingIterator::next reducing the position modulo the capacity S instead of
\* the fill count.
RingIteratorNext_ModCapacity(r, index) ==
    IF index >= r.size
    THEN None
    ELSE r.buf[(r.offset + index) % Cardinality(DOMAIN r.buf)]

\* The slot RingIterator::next reads at position index (0-based), or None
\* once index >= size.
RingIteratorNext(r, index) ==
    IF index >= r.size THEN None ELSE r.buf[(r.offset + index) % r.size]

\* Ring::iter collected: next() from index 0 until the first None.
RECURSIVE RingCollect(_, _)
RingCollect(r, index) ==
    LET res == RingIteratorNext(r, index)
    IN IF res = None THEN <<>> ELSE res \o RingCollect(r, index + 1)

RingIter(r) == RingCollect(r, 0)

-----------------------------------------------------------------------------
(* dict.rs: MemoryDictionary<L>. *)

VACUCUME_SKIP_SIZE == 8

\* DECAY_L computed with an integer division: 1 - 1 / L.
DECAY_L_IntegerDivision(L) == RInt(1 - (1 \div L))

\* const DECAY_L = 1.0 - 1.0 / L
DECAY_L(L) == Rat(L - 1, L)

\* const SIGMA = 0.3679
SIGMA == Rat(3679, 10000)

DictDefault ==
    [tokens |-> <<>>, last_vaccumed_size |-> 0, last_vaccumed_idx |-> 0, idx |-> 0]

Stored(d) == DOMAIN d.tokens

\* vaccume leaving the stamp of every entry as it was
vaccume_KeepStamps(L, d) ==
    LET decayed == [t \in Stored(d) |->
            [count |-> RMul(d.tokens[t].count,
                            RPowi(DECAY_L(L),
                                  saturating_sub(d.idx, d.tokens[t].last_updated))),
             last_updated |-> d.tokens[t].last_updated]]
        kept == {t \in Stored(d) : RGt(decayed[t].count, SIGMA)}
    IN [d EXCEPT !.tokens = [t \in kept |-> decayed[t]],
                 !.last_vaccumed_idx = d.idx]

\* vaccume taking num_gap one index too long
vaccume_GapPlusOne(L, d) ==
    LET decayed == [t \in Stored(d) |->
            [count |-> RMul(d.tokens[t].count,
                            RPowi(DECAY_L(L),
                                  saturating_sub(d.idx, d.tokens[t].last_updated) + 1)),
             last_updated |-> d.idx]]
        kept == {t \in Stored(d) : RGt(decayed[t].count, SIGMA)}
    IN [d EXCEPT !.tokens = [t \in kept |-> decayed[t]],
                 !.last_vaccumed_idx = d.idx]

\* MemoryDictionary::vaccume: decay every entry to self.idx, stamp it with
\* self.idx, keep the entries above SIGMA.
vaccume(L, d) ==
    LET decayed == [t \in Stored(d) |->
            [count |-> RMul(d.tokens[t].count,
                            RPowi(DECAY_L(L),
                                  saturating_sub(d.idx, d.tokens[t].last_updated))),
             last_updated |-> d.idx]]
        kept == {t \in Stored(d) : RGt(decayed[t].count, SIGMA)}
    IN [d EXCEPT !.tokens = [t \in kept |-> decayed[t]],
                 !.last_vaccumed_idx = d.idx]

\* vaccume_if_required running the pass on every call
vaccume_if_required_Always(L, d) ==
    LET v == vaccume(L, d)
    IN [v EXCEPT !.last_vaccumed_size = Cardinality(Stored(v))]

\* MemoryDictionary::vaccume_if_required
vaccume_if_required(L, d) ==
    IF Cardinality(Stored(d)) > VACUCUME_SKIP_SIZE
       /\ Cardinality(Stored(d)) * 2 > d.last_vaccumed_size * 3
    THEN LET v == vaccume(L, d)
         IN [v EXCEPT !.last_vaccumed_size = Cardinality(Stored(v))]
    ELSE d

\* The entry observe leaves for the token: and_modify adds 1 to the stored
\* count as it is, or_insert starts at 1; both stamp the entry with idx.
ObserveEntry(d, token, idx) ==
    IF token \in Stored(d)
    THEN [count |-> RAdd(d.tokens[token].count, RInt(1)), last_updated |-> idx]
    ELSE [count |-> RInt(1), last_updated |-> idx]

\* Dictionary::observe for MemoryDictionary
observe(L, d, token, idx) ==
    LET e == ObserveEntry(d, token, idx)
        toks == [t \in Stored(d) \cup {token} |->
                    IF t = token THEN e ELSE d.tokens[t]]
    IN vaccume_if_required(L, [d EXCEPT !.idx = idx, !.tokens = toks])

\* Dictionary::count returning the stored field without decaying it.
count_StoredField(L, d, token) ==
    [ret |-> IF token \in Stored(d) THEN d.tokens[token].count ELSE RInt(0),
     self |-> d]

\* Dictionary::count writing the decayed count back into the entry and
\* stamping it with the current index.
count_LazyDecayCache(L, d, token) ==
    [ret |-> IF token \in Stored(d)
             THEN RMul(d.tokens[token].count,
                       RPowi(DECAY_L(L),
                             saturating_sub(d.idx, d.tokens[token].last_updated)))
             ELSE RInt(0),
     self |-> IF token \in Stored(d)
              THEN [d EXCEPT !.tokens[token] =
                      [count |-> RMul(d.tokens[token].count,
                                      RPowi(DECAY_L(L),
                                            saturating_sub(d.idx,
                                                d.tokens[token].last_updated))),
                       last_updated |-> Max(d.idx, d.tokens[token].last_updated)]]
              ELSE d]

\* Dictionary::count for MemoryDictionary, which takes &self: the value
\* returned and the dictionary the call leaves behind.
count(L, d, token) ==
    [ret |-> IF token \in Stored(d)
             THEN RMul(d.tokens[token].count,
                       RPowi(DECAY_L(L),
                             saturating_sub(d.idx, d.tokens[token].last_updated)))
             ELSE RInt(0),
     self |-> d]

-----------------------------------------------------------------------------
(* text.rs.  A char is its Unicode code point, a string the sequence of    *)
(* its chars, so that the order of strings is the order sort_unstable      *)
(* uses.                                                                   *)

Kieuk == 12619      \* U+314B
Hieut == 12622      \* U+314E
JamoU == 12636      \* U+315C
JamoYu == 12640     \* U+3160
Tikeut == 12599     \* U+3137
Bang == 33          \* '!'
Dot == 46           \* '.'
Comma == 44         \* ','
Quest == 63         \* '?'
Nul == 0            \* '\0'
DoubleStruckS == 120138     \* U+1D54A, the initial last_char

\* Ord for &[char] / String: lexicographic by code point.
RECURSIVE StrLt(_, _)
StrLt(a, b) ==
    IF b = <<>> THEN FALSE
    ELSE IF a = <<>> THEN TRUE
    ELSE IF Head(a) # Head(b) THEN Head(a) < Head(b)
    ELSE StrLt(Tail(a), Tail(b))

\* v.sort_unstable(); v.dedup(): the distinct strings of v in ascending order.
RECURSIVE SortedDedup(_)
SortedDedup(set) ==
    IF set = {} THEN <<>>
    ELSE LET least == CHOOSE x \in set : \A y \in set \ {x} : StrLt(x, y)
         IN <<least>> \o SortedDedup(set \ {least})

\* chars.windows(n): the contiguous length-n slices (n >= 1).
Windows(chars, n) ==
    {SubSeq(chars, i, i + n - 1) : i \in 1..(Len(chars) - n + 1)}

\* unique_char_ngrams
unique_char_ngrams(s, min_n, max_n) ==
    IF s # <<>>
    THEN SortedDedup(UNION {Windows(s, n) :
                            n \in Min(min_n, Len(s))..Min(max_n, Len(s))})
    ELSE <<>>

\* derepeat: the filter closure run over the chars, with its captured
\* last_char and repeat.
RECURSIVE DerepeatFrom(_, _, _, _)
DerepeatFrom(text, n, last_char, repeat) ==
    IF text = <<>> THEN <<>>
    ELSE LET c == Head(text)
             repeat2 == IF last_char = c THEN repeat + 1 ELSE 0
             last2 == IF last_char = c THEN last_char ELSE c
         IN (IF repeat2 < n THEN <<c>> ELSE <<>>)
            \o DerepeatFrom(Tail(text), n, last2, repeat2)

\* derepeat with the comparison repeat + 1 < n: one char fewer per run
derepeat_OneFewer(text, n) == DerepeatFrom(text, n - 1, DoubleStruckS, 0)

derepeat(text, n) == DerepeatFrom(text, n, DoubleStruckS, 0)

IsEmphasis(c) ==
    \/ c = Kieuk \/ c = Hieut \/ c = JamoU \/ c = JamoYu \/ c = Tikeut
    \/ c = Bang \/ c = Dot \/ c = Comma \/ c = Quest

\* The condition of the first branch of space_around_ic as it is written:
\* a disjunction of inequalities.
NotAllEmphasis(c) ==
    \/ c # Kieuk \/ c # Hieut \/ c # JamoU \/ c # JamoYu \/ c # Tikeut
    \/ c # Bang \/ c # Dot \/ c # Comma \/ c # Quest

Space == 32

\* space_around_ic: the flat_map closure run over the chars, with its
\* captured last_char and repeat; each char yields itself and a second char.
RECURSIVE SpaceAroundFrom(_, _, _)
SpaceAroundFrom(text, last_char, repeat) ==
    IF text = <<>> THEN <<>>
    ELSE LET c == Head(text)
             first == NotAllEmphasis(c)
             repeat2 == IF first
                        THEN (IF IsEmphasis(last_char) THEN repeat + 1 ELSE 0)
                        ELSE (IF repeat >= 1 THEN 0 ELSE repeat)
             second == IF first THEN Nul
                       ELSE IF repeat >= 1 THEN Space ELSE Nul
         IN <<c, second>> \o SpaceAroundFrom(Tail(text), c, repeat2)

\* .filter(|c| c != &'\0')
DropNul(text) == SelectSeq(text, LAMBDA c : c # Nul)

space_around_ic(text) == DropNul(SpaceAroundFrom(text, DoubleStruckS, 0))

\* normalize
normalize(text) == space_around_ic(derepeat(text, 3))

-----------------------------------------------------------------------------
(* spike.rs: SpikeDetector<S, L>.  A duration is a record [a, b] standing  *)
(* for a / SC seconds plus (b / SC) * EPSILON, or NaN when a = NaN; an     *)
(* Instant is a whole number of seconds.                                   *)

Idle == "Idle"
InSpike == "InSpike"

Dur(a, b) == [a |-> a, b |-> b]
DurNaN == Dur(NaN, 0)

SpikeDefault ==
    [dur_s |-> Dur(0, 0), dur_l |-> Dur(0, 0),
     start_t |-> (25 * SC) \div 10, end_t |-> (125 * SC) \div 100,
     last_ts |-> None, phase |-> Idle]

\* SpikeDetector::with_threshold
SpikeWithThreshold(sp, start_t, end_t) ==
    [sp EXCEPT !.start_t = start_t, !.end_t = end_t]

\* dur * (1 - 1/N) + gap.  For N = 0 the factor is 1 - inf = -inf and the
\* duration, 0 before the first push, becomes and stays NaN.
DecayAndAdd(dur, N, gap) ==
    IF N = 0 \/ dur.a = NaN THEN DurNaN
    ELSE Dur((dur.a * (N - 1)) \div N + gap.a, (dur.b * (N - 1)) \div N + gap.b)

\* the time gap without .max(f64::EPSILON)
TimeGap_Unclamped(last_ts, ts) ==
    IF last_ts # None /\ ts > last_ts[1]
    THEN Dur(FxOfInt(ts - last_ts[1]), 0)
    ELSE Dur(0, 0)

\* last_ts.map_or(0.0, |prev| ts.duration_since(prev).as_secs_f64())
\*        .max(f64::EPSILON): duration_since saturates at zero.
TimeGap(last_ts, ts) ==
    IF last_ts # None /\ ts > last_ts[1]
    THEN Dur(FxOfInt(ts - last_ts[1]), 0)
    ELSE Dur(0, SC)

\* dur_s * (L as f64) / dur_l
LambdaNull(L, dur_s, dur_l) ==
    IF dur_s.a = NaN \/ dur_l.a = NaN \/ dur_l = Dur(0, 0) THEN Lam(NaN, 0)
    ELSE IF dur_s.a > 0 /\ dur_l.a > 0
    THEN Lam(Max(1, FxDiv(dur_s.a * L, dur_l.a)), 0)
    ELSE IF dur_s.a > 0 THEN Lam(Max(1, FxDiv(dur_s.a * L, dur_l.b)), -1)
    ELSE IF dur_l.a > 0 THEN Lam(Max(1, FxDiv(dur_s.b * L, dur_l.a)), 1)
    ELSE Lam(Max(1, FxDiv(dur_s.b * L, dur_l.b)), 0)

\* SpikeDetector::current_surprise
current_surprise(S, L, sp) ==
    neg_ln_poisson_tail(FxOfInt(S), LambdaNull(L, sp.dur_s, sp.dur_l))

\* the match of SpikeDetector::push, comparing with reversed inequalities
PhaseStep_Reversed(sp, surprise) ==
    IF sp.phase = Idle /\ FLt(surprise, sp.start_t)
    THEN [self |-> [sp EXCEPT !.phase = InSpike],
          event |-> [kind |-> "Begin", surprise |-> surprise]]
    ELSE IF sp.phase = InSpike /\ FGt(surprise, sp.end_t)
    THEN [self |-> [sp EXCEPT !.phase = Idle],
          event |-> [kind |-> "End", surprise |-> surprise]]
    ELSE [self |-> sp, event |-> [kind |-> "None"]]

\* the match of SpikeDetector::push leaving self.phase as it was
PhaseStep_PhaseKept(sp, surprise) ==
    IF sp.phase = Idle /\ FGt(surprise, sp.start_t)
    THEN [self |-> sp, event |-> [kind |-> "Begin", surprise |-> surprise]]
    ELSE IF sp.phase = InSpike /\ FLt(surprise, sp.end_t)
    THEN [self |-> sp, event |-> [kind |-> "End", surprise |-> surprise]]
    ELSE [self |-> sp, event |-> [kind |-> "None"]]

\* the match of SpikeDetector::push on the phase and the surprise
PhaseStep(sp, surprise) ==
    IF sp.phase = Idle /\ FGt(surprise, sp.start_t)
    THEN [self |-> [sp EXCEPT !.phase = InSpike],
          event |-> [kind |-> "Begin", surprise |-> surprise]]
    ELSE IF sp.phase = InSpike /\ FLt(surprise, sp.end_t)
    THEN [self |-> [sp EXCEPT !.phase = Idle],
          event |-> [kind |-> "End", surprise |-> surprise]]
    ELSE [self |-> sp, event |-> [kind |-> "None"]]

\* SpikeDetector::push: the detector it leaves and the SpikeEvent returned
SpikePush(S, L, sp, ts) ==
    LET time_gap == TimeGap(sp.last_ts, ts)
        sp2 == [sp EXCEPT !.dur_s = DecayAndAdd(sp.dur_s, S, time_gap),
                          !.dur_l = DecayAndAdd(sp.dur_l, L, time_gap),
                          !.last_ts = Some(ts)]
    IN PhaseStep(sp2, current_surprise(S, L, sp2))

-----------------------------------------------------------------------------
(* spike.rs: ChatWindow<S, L, D>. *)

ChatCache(chat, data) == [chat |-> chat, data |-> data]

ChatWindowDefault(S) ==
    [recent_chats |-> RingNew(S), ngram_range |-> <<1, 4>>, last_chat_idx |-> 0]

\* ChatWindow::with_ngram_range
WindowWithNgramRange(w, min, max) == [w EXCEPT !.ngram_range = <<min, max>>]

\* tokens.into_iter().for_each(|token| dict.observe(&token, idx))
RECURSIVE ObserveAll(_, _, _, _)
ObserveAll(DL, d, tokens, idx) ==
    IF tokens = <<>> THEN d
    ELSE ObserveAll(DL, observe(DL, d, Head(tokens), idx), Tail(tokens), idx)

\* push_with_data leaving the message out of the ring
push_with_data_Dropped(S, w, chat, data) == [self |-> w, panic |-> S = 0]

\* ChatWindow::push_with_data: Ring::push indexes buf[offset], which
\* panics for a ring of capacity 0.
push_with_data(S, w, chat, data) ==
    IF S = 0 THEN [self |-> w, panic |-> TRUE]
    ELSE [self |-> [w EXCEPT !.recent_chats =
                        RingPush(S, w.recent_chats, ChatCache(chat, data))],
          panic |-> FALSE]

\* ChatWindow::push_with_data_and_dict: the window and the dictionary the
\* call leaves, and whether it panicked.
push_with_data_and_dict(S, w, chat, data, DL, d) ==
    LET w1 == [w EXCEPT !.last_chat_idx = w.last_chat_idx + 1]
        norm == normalize(chat)
        tokens == unique_char_ngrams(norm, w.ngram_range[1], w.ngram_range[2])
        pushedW == push_with_data(S, w1, norm, data)
    IN [self |-> pushedW.self,
        dict |-> ObserveAll(DL, d, tokens, w1.last_chat_idx),
        panic |-> pushedW.panic]

\* f64 +, *, / with NaN and the infinities that arise below
FAdd(a, b) == IF a = NaN \/ b = NaN THEN NaN ELSE a + b
FMulN(a, b) == IF a = NaN \/ b = NaN THEN NaN ELSE FxMul(a, b)
FDivN(a, b) ==
    IF a = NaN \/ b = NaN THEN NaN
    ELSE IF b = 0 THEN (IF a = 0 THEN NaN ELSE Sgn(a) * Inf)
    ELSE IF Abs(b) = Inf THEN (IF Abs(a) = Inf THEN NaN ELSE 0)
    ELSE FxDiv(a, b)

\* x.powi(2), never rounded to zero for x # 0
FSquare(x) == IF x = 0 THEN 0 ELSE IF Abs(x) = Inf THEN Inf ELSE Max(1, FxMul(x, x))

RECURSIVE SumSeq(_)
SumSeq(xs) == IF xs = <<>> THEN 0 ELSE FAdd(Head(xs), SumSeq(Tail(xs)))

\* q.ln() for a rational q > 0: 0 exactly when q = 1, else of the sign of
\* the logarithm
LnOfRat(q) ==
    IF q = RInt(1) THEN 0
    ELSE IF RLt(q, RInt(1)) THEN Min(-1, FxLn(FxDiv(q[1], q[2])))
    ELSE Max(1, FxLn(FxDiv(q[1], q[2])))

\* ((L as f64) / c).ln() for c = dict.count(t).max(1.0); -inf when L = 0
LnOfQuotient(L, c) == IF L = 0 THEN -Inf ELSE LnOfRat(Rat(L * c[2], c[1]))

\* ((L as f64) / dict.count(t).max(1.0)).ln()
Weight(L, DL, d, t) == LnOfQuotient(L, RMax(count(DL, d, t).ret, RInt(1)))

\* the elements of a sequence
Range(xs) == {xs[i] : i \in 1..Len(xs)}

\* tokenses: the n-grams of every member of the window
Tokenses(w, members) ==
    [i \in 1..Len(members) |->
        unique_char_ngrams(members[i].chat, w.ngram_range[1], w.ngram_range[2])]

\* the weight of every token of the window
Weights(L, DL, d, tokenses) ==
    [t \in UNION {Range(tokenses[i]) : i \in 1..Len(tokenses)} |->
        Weight(L, DL, d, t)]

\* the square root of a sum of squares
SqrtOfSum(sq) == IF sq >= Inf THEN Inf ELSE FxSqrt(sq)

\* norm2 of every member: the L2 norm of the weights of its tokens
Norms(tokenses, weight) ==
    [i \in 1..Len(tokenses) |->
        SqrtOfSum(SumSeq([j \in 1..Len(tokenses[i]) |->
                            FSquare(weight[tokenses[i][j]])]))]

\* u of every member and each of its tokens: weight / norm2
Units(tokenses, weight, norm2) ==
    [i \in 1..Len(tokenses) |->
        [t \in Range(tokenses[i]) |-> FDivN(weight[t], norm2[i])]]

\* uv: for every token the sum of u over the members holding it
UVs(tokenses, u) ==
    [t \in UNION {Range(tokenses[i]) : i \in 1..Len(tokenses)} |->
        SumSeq([i \in 1..Len(tokenses) |->
                  IF t \in Range(tokenses[i]) THEN u[i][t] ELSE 0])]

\* degree_centrality.is_nan() replaced by 0.0
NanToZero(x) == IF x = NaN THEN 0 ELSE x

\* degree_centrality of every member: the sum of u * uv[t] over its tokens,
\* less 1
Centralities(tokenses, u, uv) ==
    [i \in 1..Len(tokenses) |->
        NanToZero(FAdd(SumSeq([j \in 1..Len(tokenses[i]) |->
                                 FMulN(u[i][tokenses[i][j]],
                                       uv[tokenses[i][j]])]),
                       -SC))]

\* the (chat, data, degree_centrality) triples, in the order of the window
Triples(members, dc) ==
    [i \in 1..Len(members) |->
        [chat |-> members[i].chat, data |-> members[i].data, score |-> dc[i]]]

ScoredUnits(members, tokenses, u) ==
    Triples(members, Centralities(tokenses, u, UVs(tokenses, u)))

ScoredWeights(members, tokenses, weight) ==
    ScoredUnits(members, tokenses,
                Units(tokenses, weight, Norms(tokenses, weight)))

ScoredTokens(L, DL, d, members, tokenses) ==
    ScoredWeights(members, tokenses, Weights(L, DL, d, tokenses))

ScoredMembers(L, w, DL, d, members) ==
    ScoredTokens(L, DL, d, members, Tokenses(w, members))

\* the triples summary_with_dict ranks
Scored(L, w, DL, d) == ScoredMembers(L, w, DL, d, RingIter(w.recent_chats))

\* Iterator::max_by with a.2.partial_cmp(&b.2).unwrap_or(Less), keeping the
\* earlier of two equal scores
RECURSIVE MaxByScore_First(_, _)
MaxByScore_First(best, rest) ==
    IF rest = <<>> THEN best
    ELSE MaxByScore_First(IF best.score >= Head(rest).score
                          THEN best ELSE Head(rest),
                          Tail(rest))

\* Iterator::max_by with a.2.partial_cmp(&b.2).unwrap_or(Less): the fold
\* keeps the element held only when it compares Greater than the next one.
RECURSIVE MaxByScore(_, _)
MaxByScore(best, rest) ==
    IF rest = <<>> THEN best
    ELSE MaxByScore(IF best.score > Head(rest).score THEN best ELSE Head(rest),
                    Tail(rest))

\* .max_by(..) answering None when no member of the window has a token
MaxOfScored_NoneWithoutTokens(scored) ==
    IF \A i \in 1..Len(scored) : scored[i].score = -SC THEN None
    ELSE Some(MaxByScore(Head(scored), Tail(scored)))

\* .max_by(..) over the triples: None for an empty window
MaxOfScored(scored) ==
    IF scored = <<>> THEN None
    ELSE Some(MaxByScore(Head(scored), Tail(scored)))

\* ChatWindow::summary_with_dict, which takes &self and &dict: the Option
\* returned, and the window and dictionary the call leaves behind.
summary_with_dict(L, w, DL, d) ==
    [ret |-> MaxOfScored(Scored(L, w, DL, d)), self |-> w, dict |-> d]

-----------------------------------------------------------------------------
(* spike.rs: ChatSpikeDetector<S, L, D>. *)

DetectorDefault(S) ==
    [spike |-> SpikeDefault, recent_chats |-> ChatWindowDefault(S)]

\* ChatSpikeDetector::with_ngram_range
with_ngram_range(cd, min, max) ==
    [cd EXCEPT !.recent_chats = WindowWithNgramRange(cd.recent_chats, min, max)]

\* ChatSpikeDetector::with_threshold
with_threshold(cd, start_t, end_t) ==
    [cd EXCEPT !.spike = SpikeWithThreshold(cd.spike, start_t, end_t)]

\* the Event built from a SpikeEvent and the summary queried for it
PackageEvent(ev, summary) ==
    IF ev.kind = "None" THEN [kind |-> "None"]
    ELSE [kind |-> IF ev.kind = "Begin" THEN "SpikeBegin" ELSE "SpikeEnd",
          summary |-> IF summary = None THEN None ELSE Some(summary[1].chat),
          data |-> IF summary = None THEN None ELSE summary[1].data,
          surprise |-> ev.surprise]

\* the match on the SpikeEvent with the summary queried for Begin alone
SummaryFor_BeginOnly(L, DL, win, ev) ==
    IF ev.kind = "Begin" THEN summary_with_dict(L, win.self, DL, win.dict).ret
    ELSE None

\* the match on the SpikeEvent: the summary is queried for Begin and End
\* only, on the window and dictionary the push left
SummaryFor(L, DL, win, ev) ==
    IF ev.kind = "None" THEN None
    ELSE summary_with_dict(L, win.self, DL, win.dict).ret

\* the rest of update_and_detect_with_data once self.spike.push(ts) returned
AfterSpikePush(L, DL, win, sp) ==
    [self |-> [spike |-> sp.self, recent_chats |-> win.self],
     dict |-> win.dict, panic |-> FALSE,
     event |-> PackageEvent(sp.event, SummaryFor(L, DL, win, sp.event))]

\* the rest of update_and_detect_with_data once the window push returned,
\* or panicked
AfterWindowPush(S, L, cd, ts, DL, win) ==
    IF win.panic
    THEN [self |-> [cd EXCEPT !.recent_chats = win.self],
          dict |-> win.dict, panic |-> TRUE, event |-> [kind |-> "Panic"]]
    ELSE AfterSpikePush(L, DL, win, SpikePush(S, L, cd.spike, ts))

\* ChatSpikeDetector::update_and_detect_with_data: the detector and the
\* dictionary the call leaves, whether it panicked, and the Event returned.
update_and_detect_with_data(S, L, cd, chat, ts, data, DL, d) ==
    AfterWindowPush(S, L, cd, ts, DL,
        push_with_data_and_dict(S, cd.recent_chats, chat, data, DL, d))

-----------------------------------------------------------------------------
(* The parts of the state a specification does not use stay at rest. *)

RingAtRest == cap = 0 /\ ring = RingNew(0) /\ pushed = <<>>
DictAtRest ==
    /\ dL = 0 /\ dict = DictDefault /\ prev = DictDefault /\ seen = {}
    /\ op = [name |-> "new"] /\ ret = None /\ calls = 0
DetAtRest ==
    /\ detS = 0 /\ detL = 0
    /\ det = DetectorDefault(0) /\ prevDet = DetectorDefault(0)
    /\ hist = <<>> /\ panicked = FALSE /\ reads = 0 /\ answers = {}

-----------------------------------------------------------------------------
(* SpecRing: one Ring<Item, cap>, any sequence of pushes. *)

Items == 1..MaxItem

InitRing ==
    /\ cap \in 1..MaxS
    /\ ring = RingNew(cap)
    /\ pushed = <<>>
    /\ DictAtRest
    /\ DetAtRest

PushItem ==
    /\ Len(pushed) < MaxPush
    /\ \E t \in Items :
        /\ ring' = RingPush(cap, ring, t)
        /\ pushed' = Append(pushed, t)
    /\ UNCHANGED <<cap, dL, dict, op, ret, prev, seen, calls>>
    /\ UNCHANGED detVars

NextRing == PushItem

SpecRing == InitRing /\ [][NextRing]_vars

-----------------------------------------------------------------------------
(* SpecDict: one MemoryDictionary<dL>, any sequence of observe calls, the  *)
(* indices in any order.  A run starts from the empty dictionary or from   *)
(* the one left by observing VACUCUME_SKIP_SIZE distinct tokens at index 0.*)

RECURSIVE Prefilled(_, _)
Prefilled(L, n) ==
    IF n = 0 THEN DictDefault ELSE observe(L, Prefilled(L, n - 1), n, 0)

FreshTokens == (VACUCUME_SKIP_SIZE + 1)..(VACUCUME_SKIP_SIZE + NFresh)
Tokens == 1..NHot \cup FreshTokens

InitDict ==
    /\ RingAtRest
    /\ DetAtRest
    /\ dL \in 1..MaxDL
    /\ \E n \in {0, VACUCUME_SKIP_SIZE} :
        /\ dict = Prefilled(dL, n)
        /\ prev = Prefilled(dL, Max(n - 1, 0))
        /\ seen = 1..n
        /\ op = IF n = 0 THEN [name |-> "new"]
                ELSE [name |-> "observe", token |-> n, idx |-> 0]
    /\ ret = None
    /\ calls = 0

Observe ==
    /\ calls < MaxObs
    /\ calls' = calls + 1
    /\ \E token \in Tokens, idx \in 0..MaxIdx :
        /\ dict' = observe(dL, dict, token, idx)
        /\ op' = [name |-> "observe", token |-> token, idx |-> idx]
        /\ seen' = seen \cup {token}
    /\ prev' = dict
    /\ UNCHANGED <<cap, ring, pushed, dL, ret>>
    /\ UNCHANGED detVars

NextDict == Observe

SpecDict == InitDict /\ [][NextDict]_vars

-----------------------------------------------------------------------------
(* SpecVacuum: one MemoryDictionary<dL> holding VACUCUME_SKIP_SIZE tokens, *)
(* observed a few more times at indices 0..MaxLate.  A run starts from the  *)
(* dictionary left by observing tokens 1..m h times each and the other     *)
(* tokens up to VACUCUME_SKIP_SIZE once, all at index 0 (Grown), or from    *)
(* the one left by a first eviction pass and two more tokens (Aged).       *)

\* the tokens 1..m, h - 1 times over, then 1..n
HitsSeq(h, m, n) ==
    [i \in 1..((h - 1) * m + n) |->
        IF i <= (h - 1) * m THEN ((i - 1) % m) + 1 ELSE i - (h - 1) * m]

GrownBefore(L, h, m) ==
    ObserveAll(L, DictDefault, HitsSeq(h, m, VACUCUME_SKIP_SIZE - 1), 0)
Grown(L, h, m) == observe(L, GrownBefore(L, h, m), VACUCUME_SKIP_SIZE, 0)

\* tokens observed after the first eviction pass
OldTokens == <<101, 102, 103>>

AgedBefore(L) == ObserveAll(L, Grown(L, 2, 5), SubSeq(OldTokens, 1, 2), L)
Aged(L) == observe(L, AgedBefore(L), OldTokens[3], L)

InitVacuum ==
    /\ RingAtRest
    /\ DetAtRest
    /\ dL \in 1..MaxDL
    /\ \/ \E h \in 1..MaxHits :
            /\ dict = Grown(dL, h, 1)
            /\ prev = GrownBefore(dL, h, 1)
            /\ seen = 1..VACUCUME_SKIP_SIZE
            /\ op = [name |-> "observe", token |-> VACUCUME_SKIP_SIZE, idx |-> 0]
       \/ /\ dict = Aged(dL)
          /\ prev = AgedBefore(dL)
          /\ seen = 1..VACUCUME_SKIP_SIZE \cup Range(OldTokens)
          /\ op = [name |-> "observe", token |-> OldTokens[3], idx |-> dL]
    /\ ret = None
    /\ calls = 0

ObserveLate ==
    /\ calls < MaxGrow
    /\ calls' = calls + 1
    /\ \E token \in Tokens, idx \in 0..MaxLate :
        /\ dict' = observe(dL, dict, token, idx)
        /\ op' = [name |-> "observe", token |-> token, idx |-> idx]
        /\ seen' = seen \cup {token}
    /\ prev' = dict
    /\ UNCHANGED <<cap, ring, pushed, dL, ret>>
    /\ UNCHANGED detVars

NextVacuum == ObserveLate

SpecVacuum == InitVacuum /\ [][NextVacuum]_vars

-----------------------------------------------------------------------------
(* SpecTail: neg_ln_poisson_tail applied to counts k >= 0 and rates        *)
(* lambda > 0: ordinary rates on both sides of 20, and rates of the order  *)
(* of EPSILON and of 1 / EPSILON.                                          *)

TailKs == {(i * i * SC) \div 2 : i \in 0..MaxKStep}
TailLambdas ==
    {Lam((j * j * SC) \div 4 + 1, 0) : j \in 0..MaxLambdaStep}
        \cup {Lam(SC, 1), Lam(SC, -1)}

\* the arguments of the call are chosen at the start
InitTail ==
    /\ RingAtRest /\ DetAtRest
    /\ dL = 0 /\ dict = DictDefault /\ prev = DictDefault /\ seen = {}
    /\ \E k \in TailKs, lambda \in TailLambdas :
          op = [name |-> "arguments", k |-> k, lambda |-> lambda]
    /\ ret = None /\ calls = 0

TailCall ==
    /\ op.name = "arguments"
    /\ ret' = [kind |-> "f64", value |-> neg_ln_poisson_tail(op.k, op.lambda)]
    /\ op' = [op EXCEPT !.name = "neg_ln_poisson_tail"]
    /\ UNCHANGED <<cap, ring, pushed, dL, dict, prev, seen, calls>>
    /\ UNCHANGED detVars

NextTail == TailCall

SpecTail == InitTail /\ [][NextTail]_vars

-----------------------------------------------------------------------------
(* SpecText: unique_char_ngrams and normalize applied to the strings of up *)
(* to MaxLen chars over a letter, a jamo, a punctuation mark, the initial *)
(* last_char of the closures and NUL, with every (min_n, max_n) in         *)
(* 1..MaxN.                                                                *)

\* 'a', U+314B, '!', U+1D54A, '\0'
Alphabet == {97, Kieuk, Bang, DoubleStruckS, Nul}
Strings == UNION {[1..n -> Alphabet] : n \in 0..MaxLen}

\* the arguments of the call are chosen at the start
InitText ==
    /\ RingAtRest /\ DetAtRest
    /\ dL = 0 /\ dict = DictDefault /\ prev = DictDefault /\ seen = {}
    /\ \E s \in Strings, min_n \in 1..MaxN, max_n \in 1..MaxN :
          op = [name |-> "arguments", s |-> s, min_n |-> min_n, max_n |-> max_n]
    /\ ret = None /\ calls = 0

UniqueCharNgrams ==
    /\ op.name = "arguments"
    /\ ret' = unique_char_ngrams(op.s, op.min_n, op.max_n)
    /\ op' = [op EXCEPT !.name = "unique_char_ngrams"]
    /\ UNCHANGED <<cap, ring, pushed, dL, dict, prev, seen, calls>>
    /\ UNCHANGED detVars

Normalize ==
    /\ op.name = "arguments"
    /\ ret' = normalize(op.s)
    /\ op' = [op EXCEPT !.name = "normalize"]
    /\ UNCHANGED <<cap, ring, pushed, dL, dict, prev, seen, calls>>
    /\ UNCHANGED detVars

NextText == UniqueCharNgrams \/ Normalize

SpecText == InitText /\ [][NextText]_vars

-----------------------------------------------------------------------------
(* Inputs of the detector specifications. *)

\* the const parameters <S, L> a detector is instantiated with
Horizons == {<<1, 2>>, <<2, 4>>, <<1, 100>>, <<0, 2>>, <<2, 0>>}
\* the const parameter of the MemoryDictionary handed to the window
DictHorizons == {2, 12}
\* (start_t, end_t) given to with_threshold
ThresholdPairs == {<<0, Inf>>, <<SC \div 2, SC \div 4>>}
\* (min, max) given to with_ngram_range
NgramRanges == {<<1, 2>>, <<2, 1>>}
\* the chat lines "", "ab", "aaaa"
Chats == {<<>>, <<97, 98>>, <<97, 97, 97, 97>>}
\* the Instants given as timestamps, in seconds after the first one
Instants == {0, 1}
\* the tokens "ab", "z" asked of count
QueryTokens == {<<97, 98>>, <<122>>}

Configured == hist = <<>> /\ reads = 0 /\ ~panicked

InitDetector ==
    /\ RingAtRest
    /\ \E h \in Horizons :
        /\ detS = h[1] /\ detL = h[2]
        /\ det = DetectorDefault(h[1]) /\ prevDet = DetectorDefault(h[1])
    /\ dL \in DictHorizons
    /\ dict = DictDefault /\ prev = DictDefault /\ seen = {}
    /\ op = [name |-> "new"] /\ ret = None /\ calls = 0
    /\ hist = <<>> /\ panicked = FALSE /\ reads = 0 /\ answers = {}

\* with_threshold, a builder called on the value default() returned
WithThreshold ==
    /\ Configured
    /\ det.spike = SpikeDefault
    /\ \E th \in ThresholdPairs :
        /\ det' = with_threshold(det, th[1], th[2])
        /\ op' = [name |-> "with_threshold", start_t |-> th[1], end_t |-> th[2]]
    /\ prevDet' = det
    /\ ret' = None
    /\ UNCHANGED <<cap, ring, pushed, dL, dict, prev, seen, calls,
                   detS, detL, hist, panicked, reads, answers>>

\* with_ngram_range, a builder called on the value default() returned
WithNgramRange ==
    /\ Configured
    /\ det.recent_chats = ChatWindowDefault(detS)
    /\ \E r \in NgramRanges :
        /\ det' = with_ngram_range(det, r[1], r[2])
        /\ op' = [name |-> "with_ngram_range", min |-> r[1], max |-> r[2]]
    /\ prevDet' = det
    /\ ret' = None
    /\ UNCHANGED <<cap, ring, pushed, dL, dict, prev, seen, calls,
                   detS, detL, hist, panicked, reads, answers>>

-----------------------------------------------------------------------------
(* SpecSpike: one SpikeDetector<detS, detL> (the spike field of det), fed   *)
(* any sequence of timestamps, in any order, its surprise read at any      *)
(* point, up to MaxRead times.                                             *)

SpikePushCall ==
    /\ ~panicked
    /\ Len(hist) < MaxUpd
    /\ \E ts \in Instants :
        \E r \in {SpikePush(detS, detL, det.spike, ts)} :
           /\ det' = [det EXCEPT !.spike = r.self]
           /\ ret' = r.event
           /\ op' = [name |-> "push", ts |-> ts]
           /\ hist' = Append(hist, [ts |-> ts, event |-> r.event])
    /\ prevDet' = det
    /\ UNCHANGED <<cap, ring, pushed, dL, dict, prev, seen, calls,
                   detS, detL, panicked, reads, answers>>

\* sd.current_surprise(), which takes &self
CurrentSurprise ==
    /\ ~panicked
    /\ reads < MaxRead
    /\ ret' = [kind |-> "f64", value |-> current_surprise(detS, detL, det.spike)]
    /\ op' = [name |-> "current_surprise"]
    /\ reads' = reads + 1
    /\ prevDet' = det
    /\ UNCHANGED <<cap, ring, pushed, dL, dict, prev, seen, calls,
                   detS, detL, det, hist, panicked, answers>>

NextSpike == WithThreshold \/ SpikePushCall \/ CurrentSurprise

SpecSpike == InitDetector /\ [][NextSpike]_vars

-----------------------------------------------------------------------------
(* Spec: one ChatSpikeDetector<detS, detL, usize> and the MemoryDictionary *)
(* <dL> handed to it, any sequence of updates.  The data of the n-th       *)
(* update is Some(n).                                                      *)

\* the tokens push_with_data_and_dict observes for a chat line
TokensOf(w, chat) ==
    unique_char_ngrams(normalize(chat), w.ngram_range[1], w.ngram_range[2])

Update ==
    /\ ~panicked
    /\ Len(hist) < MaxUpd
    /\ \E chat \in Chats, ts \in Instants :
        \E r \in {update_and_detect_with_data(detS, detL, det, chat, ts,
                                                Some(Len(hist) + 1), dL, dict)} :
           /\ det' = r.self
           /\ dict' = r.dict
           /\ panicked' = r.panic
           /\ ret' = r.event
           /\ op' = [name |-> "update", chat |-> chat, ts |-> ts,
                     data |-> Some(Len(hist) + 1)]
           /\ hist' = Append(hist, [chat |-> chat, ts |-> ts,
                                    data |-> Some(Len(hist) + 1),
                                    event |-> r.event])
           /\ seen' = seen \cup Range(TokensOf(det.recent_chats, chat))
    /\ prevDet' = det
    /\ prev' = dict
    /\ reads' = 0
    /\ answers' = {}
    /\ UNCHANGED <<cap, ring, pushed, dL, calls, detS, detL>>

Next == WithThreshold \/ WithNgramRange \/ Update

Spec == InitDetector /\ [][Next]_vars

-----------------------------------------------------------------------------
(* SpecWindow: one ChatWindow<detS, detL, usize> (the recent_chats field   *)
(* of det) and the MemoryDictionary<dL> handed to it: pushes, and between  *)
(* them any queries of the summary and of token counts.                    *)

PushWithDict ==
    /\ ~panicked
    /\ Len(hist) < MaxUpd
    /\ \E chat \in Chats :
        \E r \in {push_with_data_and_dict(detS, det.recent_chats, chat,
                                            Some(Len(hist) + 1), dL, dict)} :
           /\ det' = [det EXCEPT !.recent_chats = r.self]
           /\ dict' = r.dict
           /\ panicked' = r.panic
           /\ op' = [name |-> "push_with_data_and_dict", chat |-> chat,
                     data |-> Some(Len(hist) + 1)]
           /\ hist' = Append(hist, [chat |-> chat, data |-> Some(Len(hist) + 1)])
           /\ seen' = seen \cup Range(TokensOf(det.recent_chats, chat))
    /\ ret' = None
    /\ prevDet' = det
    /\ prev' = dict
    /\ reads' = 0
    /\ answers' = {}
    /\ UNCHANGED <<cap, ring, pushed, dL, calls, detS, detL>>

\* cw.summary_with_dict(&dict)
Summary ==
    /\ ~panicked
    /\ reads < MaxRead
    /\ \E r \in {summary_with_dict(detL, det.recent_chats, dL, dict)} :
          /\ ret' = r.ret
          /\ det' = [det EXCEPT !.recent_chats = r.self]
          /\ dict' = r.dict
          /\ answers' = answers \cup {[query |-> [name |-> "summary"],
                                       result |-> r.ret]}
    /\ op' = [name |-> "summary"]
    /\ reads' = reads + 1
    /\ prevDet' = det
    /\ prev' = dict
    /\ UNCHANGED <<cap, ring, pushed, dL, seen, calls, detS, detL, hist, panicked>>

\* dict.count(token)
Count ==
    /\ ~panicked
    /\ reads < MaxRead
    /\ \E token \in QueryTokens :
        \E r \in {count(dL, dict, token)} :
           /\ ret' = Some(r.ret)
           /\ dict' = r.self
           /\ op' = [name |-> "count", token |-> token]
           /\ answers' = answers \cup {[query |-> [name |-> "count", token |-> token],
                                        result |-> Some(r.ret)]}
    /\ reads' = reads + 1
    /\ prevDet' = det
    /\ prev' = dict
    /\ UNCHANGED <<cap, ring, pushed, dL, seen, calls, detS, detL, det, hist,
                   panicked>>

NextWindow == WithNgramRange \/ PushWithDict \/ Summary \/ Count

SpecWindow == InitDetector /\ [][NextWindow]_vars

-----------------------------------------------------------------------------
(* SpecPush: one ChatWindow<detS, detL, usize> and the MemoryDictionary<dL> *)
(* of its pushes: any sequence of pushes with the dictionary and without.  *)

\* cw.push_with_data(chat, data)
PushWithData ==
    /\ ~panicked
    /\ Len(hist) < MaxUpd
    /\ \E chat \in Chats :
        \E r \in {push_with_data(detS, det.recent_chats, chat,
                                  Some(Len(hist) + 1))} :
           /\ det' = [det EXCEPT !.recent_chats = r.self]
           /\ panicked' = r.panic
           /\ op' = [name |-> "push_with_data", chat |-> chat,
                     data |-> Some(Len(hist) + 1)]
           /\ hist' = Append(hist, [chat |-> chat, data |-> Some(Len(hist) + 1)])
    /\ ret' = None
    /\ prevDet' = det
    /\ prev' = dict
    /\ reads' = 0
    /\ answers' = {}
    /\ UNCHANGED <<cap, ring, pushed, dL, dict, seen, calls, detS, detL>>

NextPush == WithNgramRange \/ PushWithDict \/ PushWithData

SpecPush == InitDetector /\ [][NextPush]_vars

-----------------------------------------------------------------------------
(* Ring claims, under SpecRing. *)

LastN(s, n) == SubSeq(s, Len(s) - n + 1, Len(s))

\* C1: for a ring of capacity S >= 1, after n >= 0 pushes iter() yields
\* exactly the last min(n, S) pushed items, oldest first (nothing when n = 0).
C1_IterYieldsLastItems ==
    cap >= 1 => RingIter(ring) = LastN(pushed, Min(Len(pushed), cap))

\* C1 witness: a capacity-2 ring that wrapped (4 pushes) and yields the last
\* two items, which differ from the two it overwrote.
C1_Witness ==
    /\ cap = 2 /\ pushed = <<2, 2, 1, 2>>
    /\ RingIter(ring) = <<1, 2>>

-----------------------------------------------------------------------------
(* Dictionary claims, under SpecDict. *)

\* x^n for an integer n and x # 0.
RPowInt(x, n) ==
    IF n >= 0 THEN RPowi(x, n)
    ELSE LET p == RPowi(x, -n) IN Rat(p[2], p[1])

LastObserve == op.name = "observe"
\* the index given to the most recent observe
CurrentIndex == IF LastObserve THEN op.idx ELSE 0

\* C7: observe(token, i) of a stored token with count c and last-update
\* index j <= i leaves count(token) = c * (1 - 1/L)^(i - j) + 1 and
\* last-update index i; observe of a token not stored leaves count 1.
C7_ObserveDecaysThenAdds ==
    LastObserve =>
        IF op.token \in Stored(prev)
        THEN prev.tokens[op.token].last_updated <= op.idx =>
                /\ op.token \in Stored(dict)
                /\ dict.tokens[op.token].last_updated = op.idx
                /\ count(dL, dict, op.token).ret =
                     RAdd(RMul(prev.tokens[op.token].count,
                               RPowi(DECAY_L(dL),
                                     op.idx - prev.tokens[op.token].last_updated)),
                          RInt(1))
        ELSE count(dL, dict, op.token).ret = RInt(1)

\* C8 as claimed: count(token) of a stored token is
\* stored_count * (1 - 1/L)^(current_index - last_update_index), and 0 for
\* a token never observed.  (Stated for L >= 2: a negative power of the
\* decay rate 0 of L = 1 has no value.)
C8_CountFormulaSigned ==
    /\ \A t \in Stored(dict) :
        dL >= 2 =>
            count(dL, dict, t).ret =
                RMul(dict.tokens[t].count,
                     RPowInt(DECAY_L(dL),
                             CurrentIndex - dict.tokens[t].last_updated))
    /\ \A t \in Tokens \ seen : count(dL, dict, t).ret = RInt(0)

\* C8 amended: the exponent is the gap floored at 0, that is
\* max(0, current_index - last_update_index).
C8_CountFormulaSaturating ==
    /\ \A t \in Stored(dict) :
        count(dL, dict, t).ret =
            RMul(dict.tokens[t].count,
                 RPowi(DECAY_L(dL),
                       Max(0, CurrentIndex - dict.tokens[t].last_updated)))
    /\ \A t \in Tokens \ seen : count(dL, dict, t).ret = RInt(0)

\* C8 witness: a token stamped with a later index than the current one (its
\* count is the stored count), beside one that has decayed below its stored
\* count.
C8_Witness ==
    /\ LastObserve
    /\ \E t \in Stored(dict) :
        /\ dict.tokens[t].last_updated > CurrentIndex
        /\ count(dL, dict, t).ret = dict.tokens[t].count
    /\ \E t \in Stored(dict) :
        /\ dict.tokens[t].last_updated < CurrentIndex
        /\ RLt(RInt(0), count(dL, dict, t).ret)
        /\ RLt(count(dL, dict, t).ret, dict.tokens[t].count)

\* the last call advanced the logical index by observing another token than t
AdvancedPast(t) ==
    LastObserve /\ op.token # t /\ op.idx > prev.idx

\* C9 as claimed: when the index advances through an observe of another
\* token, a positive count(t) becomes strictly smaller.
C9_CountDecreasesOnAdvance ==
    \A t \in Tokens :
        (AdvancedPast(t) /\ RLt(RInt(0), count(dL, prev, t).ret))
            => RLt(count(dL, dict, t).ret, count(dL, prev, t).ret)

\* C9 amended: ... when the index advances to a value greater than t's
\* last-update index.
C9_CountDecreasesOnAdvancePastStamp ==
    \A t \in Tokens :
        (/\ AdvancedPast(t)
         /\ RLt(RInt(0), count(dL, prev, t).ret)
         /\ op.idx > prev.tokens[t].last_updated)
            => RLt(count(dL, dict, t).ret, count(dL, prev, t).ret)

\* C9 witness: an advance after which t is still stored with a positive,
\* strictly smaller count.
C9_Witness ==
    \E t \in Tokens :
        /\ AdvancedPast(t)
        /\ t \in Stored(prev) /\ t \in Stored(dict)
        /\ op.idx > prev.tokens[t].last_updated
        /\ RLt(RInt(0), count(dL, dict, t).ret)
        /\ RLt(count(dL, dict, t).ret, count(dL, prev, t).ret)

-----------------------------------------------------------------------------
(* SpikeDetector claims, under SpecSpike. *)

LastPush == op.name = "push"

\* C2: on every SpikeDetector::push, with the surprise computed from the
\* durations as the push updated them: Idle and surprise > start_t gives
\* InSpike and Begin{surprise}; InSpike and surprise < end_t gives Idle and
\* End{surprise}; every other case leaves the phase and returns None.
C2_PushRule ==
    LastPush =>
        LET was == prevDet.spike
            gap == TimeGap(was.last_ts, op.ts)
            surprise == neg_ln_poisson_tail(FxOfInt(detS),
                            LambdaNull(detL, DecayAndAdd(was.dur_s, detS, gap),
                                       DecayAndAdd(was.dur_l, detL, gap)))
        IN IF was.phase = Idle /\ FGt(surprise, was.start_t)
           THEN /\ det.spike.phase = InSpike
                /\ ret = [kind |-> "Begin", surprise |-> surprise]
           ELSE IF was.phase = InSpike /\ FLt(surprise, was.end_t)
           THEN /\ det.spike.phase = Idle
                /\ ret = [kind |-> "End", surprise |-> surprise]
           ELSE /\ det.spike.phase = was.phase
                /\ ret = [kind |-> "None"]

\* C2 witness: a third push that ends a spike on a finite, positive surprise
\* below end_t, after a first push that began it and a second that left the
\* detector in the spike.
C2_Witness ==
    /\ LastPush /\ Len(hist) = 3
    /\ prevDet.spike.phase = InSpike /\ det.spike.phase = Idle
    /\ ret.kind = "End" /\ ret.surprise > 0
    /\ FLt(ret.surprise, det.spike.end_t)

-----------------------------------------------------------------------------
(* ChatSpikeDetector claims, under Spec. *)

LastUpdate == op.name = "update" /\ ~panicked

\* the messages of the last min(n, S) updates, as the window stores them
LastMessages ==
    LET n == Len(hist)
    IN [i \in 1..Min(n, detS) |->
          ChatCache(normalize(hist[n - Min(n, detS) + i].chat),
                    hist[n - Min(n, detS) + i].data)]

\* C3: in every update the message is in the window when the state machine
\* is advanced: when the phase changes, the event is SpikeBegin or SpikeEnd
\* and its summary (the stored text, with the data given with it) is one of
\* the last min(n, S) messages given to update, which are the window's
\* content and end with the message of this update; when the phase does not
\* change the update returns Event::None.
C3_SummaryAmongLastMessages ==
    LastUpdate =>
        IF det.spike.phase # prevDet.spike.phase
        THEN /\ ret.kind = IF det.spike.phase = InSpike
                           THEN "SpikeBegin" ELSE "SpikeEnd"
             /\ RingIter(det.recent_chats.recent_chats) = LastMessages
             /\ LastMessages[Len(LastMessages)] =
                    ChatCache(normalize(op.chat), op.data)
             /\ \E i \in 1..Len(LastMessages) :
                    /\ ret.summary = Some(LastMessages[i].chat)
                    /\ ret.data = LastMessages[i].data
        ELSE ret = [kind |-> "None"]

\* C3 witness: the third update of a detector with S = 2 changes the phase
\* and its summary is the message of that very update, which differs from
\* the other message in the window.
C3_Witness ==
    /\ LastUpdate /\ detS = 2 /\ Len(hist) = 3
    /\ det.spike.phase # prevDet.spike.phase
    /\ ret.data = Some(3)
    /\ ret.summary = Some(normalize(op.chat))
    /\ normalize(hist[2].chat) # normalize(op.chat)

\* C4: every SpikeBegin and SpikeEnd returned by update on a detector with
\* S >= 1 carries a summary text.
C4_TransitionCarriesSummary ==
    (LastUpdate /\ detS >= 1 /\ ret.kind \in {"SpikeBegin", "SpikeEnd"})
        => ret.summary # None

\* C4 witness: a SpikeEnd, returned by the second update of a detector with
\* S = 1, whose summary is the empty message.
C4_Witness ==
    /\ LastUpdate /\ detS = 1 /\ Len(hist) = 2
    /\ ret.kind = "SpikeEnd"
    /\ ret.summary = Some(<<>>)

\* C5 as claimed: for S >= 1 and L >= 1, the first update of a detector
\* with thresholds (0.0, +inf) returns SpikeBegin and leaves the phase
\* InSpike.
C5_FirstUpdateBegins ==
    (/\ LastUpdate /\ Len(hist) = 1
     /\ detS >= 1 /\ detL >= 1
     /\ det.spike.start_t = 0 /\ det.spike.end_t = Inf)
        => ret.kind = "SpikeBegin" /\ det.spike.phase = InSpike

\* a configuration the specification calls invalid
InvalidConfig ==
    \/ detS = 0
    \/ detL = 0
    \/ det.recent_chats.ngram_range[2] < det.recent_chats.ngram_range[1]
    \/ ~FGt(det.spike.start_t, det.spike.end_t)

\* C6 as claimed: a detector in an invalid configuration (S = 0, L = 0,
\* max_n < min_n, start_t <= end_t) is never updated.
C6_InvalidConfigNeverUpdated == InvalidConfig => hist = <<>>

-----------------------------------------------------------------------------
(* Query claims, under SpecWindow. *)

LastQuery == op.name \in {"count", "summary"}

\* C10: count(token) and summary leave the dictionary and the window as
\* they were, and every query repeated with no push in between is answered
\* as it was the first time.
C10_QueriesReadOnly ==
    /\ LastQuery => dict = prev /\ det = prevDet
    /\ \A a, b \in answers : a.query = b.query => a.result = b.result

\* C10 witness: count of one token asked twice in a row, the token stored
\* with a last-update index behind the current index and a count that has
\* decayed below the stored one.
C10_Witness ==
    /\ op.name = "count" /\ reads = 2 /\ Cardinality(answers) = 1
    /\ op.token \in Stored(dict)
    /\ dict.tokens[op.token].last_updated < dict.idx
    /\ RLt(RInt(0), ret[1])
    /\ RLt(ret[1], dict.tokens[op.token].count)

-----------------------------------------------------------------------------
(* Summary claims, under SpecWindow. *)

LastSummary == op.name = "summary"

\* the members of the window, oldest first
Members == RingIter(det.recent_chats.recent_chats)

\* the (chat, data, score) triples the last summary ranked
Ranked == Scored(detL, det.recent_chats, dL, dict)

\* C11: summary returns None exactly when no message was pushed into the
\* window; after a push it returns Some, and the text and data returned are
\* those of a member of the window.
C11_SummaryNoneIffEmpty ==
    LastSummary =>
        /\ (ret = None) <=> (hist = <<>>)
        /\ hist # <<>> =>
              LET members == Members
              IN \E i \in 1..Len(members) :
                    /\ ret[1].chat = members[i].chat
                    /\ ret[1].data = members[i].data

\* C11 witness: a summary of a window whose members have tokens, every one
\* of them of weight zero (the score was NaN and is returned as 0), the
\* last message pushed being the empty one or not.
C11_Witness ==
    /\ LastSummary /\ ret # None
    /\ \E i \in 1..Len(Members) : TokensOf(det.recent_chats, Members[i].chat) # <<>>
    /\ \A i \in 1..Len(Members) :
          \A t \in Range(TokensOf(det.recent_chats, Members[i].chat)) :
             Weight(detL, dL, dict, t) = 0
    /\ ret[1].score = 0

\* C12: the member summary returns has the maximal score of the window,
\* and is the last inserted of the members that have it.
C12_SummaryIsLastMaximal ==
    (LastSummary /\ hist # <<>>) =>
        LET ranked == Ranked
            members == Members
        IN \E i \in 1..Len(ranked) :
              /\ ret = Some(ranked[i])
              /\ ranked[i].chat = members[i].chat
              /\ ranked[i].data = members[i].data
              /\ \A j \in 1..Len(ranked) : ranked[j].score <= ranked[i].score
              /\ \A j \in (i + 1)..Len(ranked) : ranked[j].score < ranked[i].score

\* C12 witness: two members pushed one after the other have the same,
\* maximal, score and the summary carries the data of the later one.
C12_Witness ==
    /\ LastSummary /\ Len(Members) = 2
    /\ LET ranked == Ranked
       IN /\ ranked[1].score = ranked[2].score
          /\ ranked[1].data # ranked[2].data
          /\ ranked[1].chat # <<>>
          /\ ret = Some(ranked[2])

-----------------------------------------------------------------------------
(* Timestamp claims, under SpecSpike. *)

\* a duration that is a number and is > 0.0
DurPositive(d) == d.a # NaN /\ (d.a > 0 \/ (d.a = 0 /\ d.b > 0))

\* a duration that is a number and is >= f64::EPSILON
DurAtLeastEpsilon(d) == d.a # NaN /\ (d.a > 0 \/ (d.a = 0 /\ d.b >= SC))

\* C13: on a detector with S >= 1 and L >= 1, whatever the order of the
\* timestamps, every push uses a gap >= EPSILON (EPSILON itself on the
\* first push and when the timestamp is not after the last one), returns
\* an event, and leaves dur_s > 0, dur_l > 0 and last_ts equal to the
\* timestamp given.
C13_PushWellFormed ==
    (LastPush /\ detS >= 1 /\ detL >= 1) =>
        LET was == prevDet.spike
            gap == TimeGap(was.last_ts, op.ts)
        IN /\ DurAtLeastEpsilon(gap)
           /\ (was.last_ts = None \/ op.ts <= was.last_ts[1]) => gap = Dur(0, SC)
           /\ det.spike.dur_s = DecayAndAdd(was.dur_s, detS, gap)
           /\ det.spike.dur_l = DecayAndAdd(was.dur_l, detL, gap)
           /\ DurPositive(det.spike.dur_s)
           /\ DurPositive(det.spike.dur_l)
           /\ det.spike.last_ts = Some(op.ts)
           /\ ret.kind \in {"None", "Begin", "End"}

\* C13 witness: a push with a timestamp before the last one, after two
\* pushes with increasing timestamps.
C13_Witness ==
    /\ LastPush /\ detS >= 1 /\ detL >= 1 /\ Len(hist) = 3
    /\ hist[1].ts < hist[2].ts
    /\ op.ts < prevDet.spike.last_ts[1]
    /\ det.spike.last_ts = Some(op.ts)
    /\ det.spike.dur_s.a > 0 /\ det.spike.dur_s.b > 0

-----------------------------------------------------------------------------
(* Surprise claims, under SpecSpike. *)

LastSurprise == op.name = "current_surprise"

\* C14 as claimed: on a detector with S >= 1 and L >= 1 whose dur_l is 0
\* (no event pushed yet), current_surprise returns a number, and one that
\* is >= 0.
C14_SurpriseDefinedAtZeroDuration ==
    (LastSurprise /\ detS >= 1 /\ detL >= 1 /\ det.spike.dur_l = Dur(0, 0))
        => ret.value # NaN /\ ret.value >= 0

-----------------------------------------------------------------------------
(* Surprise function claims, under SpecTail. *)

LastTail == op.name = "neg_ln_poisson_tail"

\* the branch of neg_ln_poisson_tail a call takes
Regime(k, lambda) ==
    IF lambda.e = 1 \/ (lambda.e = 0 /\ lambda.v < 20 * SC) THEN "exact"
    ELSE IF lambda.e = -1 \/ k < lambda.v
                         \/ Abs(k - lambda.v) <= 4 * FxSqrt(lambda.v)
    THEN "normal"
    ELSE "saddle"

-----------------------------------------------------------------------------
(* Eviction claims, under SpecVacuum. *)

\* the dictionary once the last observe has inserted or incremented its
\* token, before any eviction
Inserted ==
    [prev EXCEPT !.idx = op.idx,
                 !.tokens = [t \in Stored(prev) \cup {op.token} |->
                               IF t = op.token
                               THEN ObserveEntry(prev, op.token, op.idx)
                               ELSE prev.tokens[t]]]

\* the number of entries then, and the size recorded at the last pass
Entries == Cardinality(Stored(Inserted))
Baseline == prev.last_vaccumed_size

\* what an eviction pass makes of the dictionary
EvictionPass(d) ==
    [vaccume(dL, d) EXCEPT !.last_vaccumed_size = Cardinality(Stored(vaccume(dL, d)))]

\* C16 as claimed: observe runs an eviction pass exactly when the entries
\* exceed VACUCUME_SKIP_SIZE and are at least 1.5 times the baseline, and
\* otherwise leaves the dictionary as the insertion made it.
C16_PassWhenGrownByHalf ==
    LastObserve =>
        IF Entries > VACUCUME_SKIP_SIZE /\ 2 * Entries >= 3 * Baseline
        THEN dict = EvictionPass(Inserted)
        ELSE dict = Inserted

\* C16 amended: ... and are more than 1.5 times the baseline.
C16_PassWhenGrownByMoreThanHalf ==
    LastObserve =>
        IF Entries > VACUCUME_SKIP_SIZE /\ 2 * Entries > 3 * Baseline
        THEN dict = EvictionPass(Inserted)
        ELSE dict = Inserted

\* C16 witness: an observe that leaves 10 entries over a baseline of 6 and
\* runs a pass, after one that left 9 entries, exactly 1.5 times the
\* baseline, and ran none.
C16_Witness ==
    /\ LastObserve /\ calls = 2
    /\ Baseline = 6 /\ Entries = 10
    /\ Cardinality(Stored(prev)) = 9
    /\ prev.last_vaccumed_idx # prev.idx
    /\ dict = EvictionPass(Inserted)
    /\ dict # Inserted

\* the last observe ran an eviction pass
PassRan ==
    LastObserve /\ Entries > VACUCUME_SKIP_SIZE /\ 2 * Entries > 3 * Baseline

\* the count of an entry decayed to the index of the last observe
DecayedCount(t) ==
    RMul(Inserted.tokens[t].count,
         RPowi(DECAY_L(dL), Max(0, op.idx - Inserted.tokens[t].last_updated)))

\* after a pass with the given floor: the entries at or under the floor
\* are gone, the others hold their decayed count and the index of the
\* pass, and the baseline is the number of entries left
AfterPass(floor) ==
    /\ Stored(dict) = {t \in Stored(Inserted) : RGt(DecayedCount(t), floor)}
    /\ \A t \in Stored(dict) :
          dict.tokens[t] = [count |-> DecayedCount(t), last_updated |-> op.idx]
    /\ dict.last_vaccumed_size = Cardinality(Stored(dict))

C23_ObservedTokenSurvives ==
    LastObserve =>
        /\ op.token \in Stored(dict)
        /\ ~RLt(count(dL, dict, op.token).ret, RInt(1))

\* L = 1: the pass of this observe removed every other entry, each decayed
\* to 0, and kept the new token with count 1
C23_Witness ==
    /\ PassRan /\ dL = 1
    /\ op.token \notin Stored(prev)
    /\ Cardinality(Stored(prev)) >= VACUCUME_SKIP_SIZE
    /\ Stored(dict) = {op.token}
    /\ count(dL, dict, op.token).ret = RInt(1)

-----------------------------------------------------------------------------
(* Text claims, under SpecText. *)

LastNgrams == op.name = "unique_char_ngrams"
LastNormalize == op.name = "normalize"

\* t is a contiguous substring of s
IsSubstring(t, s) ==
    \E i \in 1..(Len(s) - Len(t) + 1) : SubSeq(s, i, i + Len(t) - 1) = t

\* C18 as claimed: for 1 <= min_n <= max_n every token of
\* unique_char_ngrams(s, min_n, max_n) is a contiguous substring of s of
\* min_n to max_n chars, no token is returned twice, and a string shorter
\* than min_n yields no token shorter than min_n.
C18_NgramsWithinRange ==
    (LastNgrams /\ op.min_n <= op.max_n) =>
        /\ \A i \in 1..Len(ret) :
              /\ IsSubstring(ret[i], op.s)
              /\ op.min_n <= Len(ret[i]) /\ Len(ret[i]) <= op.max_n
        /\ \A i, j \in 1..Len(ret) : i # j => ret[i] # ret[j]

\* C20 as claimed: when the text has an emphasis or punctuation char
\* followed by a char that is none, the normalized text holds a separator.
C20_SeparatorAfterEmphasis ==
    (/\ LastNormalize
     /\ \E i \in 1..(Len(op.s) - 1) :
           IsEmphasis(op.s[i]) /\ ~IsEmphasis(op.s[i + 1]))
        => \E j \in 1..Len(ret) : ret[j] = Space

\* the number of chars equal to s[i] that stand immediately before it
RunPos(s, i) ==
    Cardinality({j \in 1..(i - 1) : \A m \in j..i : s[m] = s[i]})

\* the chars of s at the positions, in order
RECURSIVE CharsAt(_, _)
CharsAt(s, positions) ==
    IF positions = {} THEN <<>>
    ELSE LET i == CHOOSE x \in positions : \A y \in positions : x <= y
         IN <<s[i]>> \o CharsAt(s, positions \ {i})

\* s with each run of identical chars cut to its first k chars
CutRuns(s, k) == CharsAt(s, {i \in 1..Len(s) : RunPos(s, i) < k})

NoRunOf(s, k) == \A i \in 1..Len(s) : RunPos(s, i) < k - 1

\* C21 as claimed: normalize cuts every run of 3 or more identical chars
\* to 2 chars and keeps runs of 1 or 2, so the normalized text has no char
\* 3 or more times in a row.
C21_RunsCutToTwo ==
    LastNormalize => ret = CutRuns(op.s, 2) /\ NoRunOf(ret, 3)

\* the chars of a run that derepeat(s, 3) keeps: 3, and 2 of a run of
\* U+1D54A that opens the text
KeptOfRun(s, i) ==
    IF s[i] = DoubleStruckS /\ RunPos(s, i) = i - 1 THEN 2 ELSE 3

\* C21 amended: normalize cuts every run of 4 or more identical chars to
\* its first 3 chars and keeps runs of 1 to 3 (of a run of U+1D54A that
\* opens the text it keeps 2), then drops every NUL char; the normalized
\* text of a text without NUL has no char 4 or more times in a row.
C21_RunsCutToThree ==
    LastNormalize =>
        LET cut == CharsAt(op.s, {i \in 1..Len(op.s) :
                                    RunPos(op.s, i) < KeptOfRun(op.s, i)})
        IN /\ ret = SelectSeq(cut, LAMBDA c : c # Nul)
           /\ (\A i \in 1..Len(op.s) : op.s[i] # Nul) => NoRunOf(ret, 4)

\* normalize was given a run of 4 of a letter and returned 3 of them
C21_Witness ==
    /\ LastNormalize
    /\ op.s = <<97, 97, 97, 97>>
    /\ ret = <<97, 97, 97>>

-----------------------------------------------------------------------------
(* Push claims, under SpecPush. *)

LastWindowPush ==
    op.name \in {"push_with_data_and_dict", "push_with_data"} /\ ~panicked

\* C19 as claimed: every push into the window adds one to last_chat_idx,
\* which is then the number of messages pushed, and observes each distinct
\* n-gram of the normalized message once at that index: the entry of each
\* is the one a single observe leaves, and no other entry changes.
C19_EveryPushIndexedAndObserved ==
    LastWindowPush =>
        LET was == prevDet.recent_chats
            idx == was.last_chat_idx + 1
            tokens == Range(TokensOf(was, op.chat))
        IN /\ det.recent_chats.last_chat_idx = idx
           /\ det.recent_chats.last_chat_idx = Len(hist)
           /\ Stored(dict) = Stored(prev) \cup tokens
           /\ \A t \in tokens : dict.tokens[t] = ObserveEntry(prev, t, idx)
           /\ \A t \in Stored(prev) \ tokens : dict.tokens[t] = prev.tokens[t]

-----------------------------------------------------------------------------
(* Event order claims, under Spec. *)

IsBegin(ev) == ev.kind = "SpikeBegin"
IsEnd(ev) == ev.kind = "SpikeEnd"

\* the updates that returned an event other than Event::None, oldest first
Emitted == SelectSeq(hist, LAMBDA h : IsBegin(h.event) \/ IsEnd(h.event))

\* C22: over any sequence of updates of one detector, with any thresholds,
\* the events other than None are Begin, End, Begin, ... starting with
\* Begin, every update returns one event at most, and after every update
\* the phase is InSpike exactly when the last such event was a Begin.
C22_EventsAlternate ==
    LET emitted == Emitted
    IN /\ \A i \in 1..Len(emitted) :
             IF i % 2 = 1 THEN IsBegin(emitted[i].event)
             ELSE IsEnd(emitted[i].event)
       /\ \A i \in 1..Len(hist) :
             \/ hist[i].event = [kind |-> "None"]
             \/ hist[i].event.kind = "Panic" /\ i = Len(hist) /\ panicked
             \/ IsBegin(hist[i].event) /\ ~IsEnd(hist[i].event)
             \/ IsEnd(hist[i].event) /\ ~IsBegin(hist[i].event)
       /\ (det.spike.phase = InSpike) <=>
             (emitted # <<>> /\ IsBegin(emitted[Len(emitted)].event))

\* three updates returned Begin, End and Begin, and the detector is InSpike
C22_Witness ==
    /\ Len(hist) = 3 /\ Len(Emitted) = 3
    /\ IsBegin(hist[1].event) /\ IsEnd(hist[2].event) /\ IsBegin(hist[3].event)
    /\ det.spike.phase = InSpike

=============================================================================
